---- MODULE Spec2Model ----
(***************************************************************************)
(* Model of backend/app.py: a FastAPI service around a LoRA-adapted        *)
(* TinyLlama model.  The state is the two session globals (model,          *)
(* tokenizer), the position of the startup handler load_model, the three   *)
(* metrics files on disk, and the outcome of the last handled request.     *)
(*                                                                         *)
(* Every handler is an `async def` without an await, so it runs to         *)
(* completion on the event loop: one action per handler.  load_model is    *)
(* split at its four library calls so that the states between them (and    *)
(* the states a raised exception leaves behind) are visible to the         *)
(* invariants.  The handlers are plain module functions: they can be       *)
(* driven with the startup handler not run (a test client used without     *)
(* its lifespan context) or after it raised, so no action is gated on the  *)
(* startup position.                                                       *)
(*                                                                         *)
(* Text is a sequence of pieces (strings); floats are kept in tenths.      *)
(***************************************************************************)
EXTENDS Integers, Sequences, FiniteSets, TLC

VARIABLES model, tokenizer, base, pc, runs, cuda, files, last

vars == <<model, tokenizer, base, pc, runs, cuda, files, last>>

\* Longest continuation the generation backend produces in the model.
MaxNew == 2

----------------------------------------------------------------------------
(* Generic helpers *)

Range(s) == {s[i] : i \in 1..Len(s)}

SeqsUpTo(S, n) == UNION {[1..k -> S] : k \in 0..n}

Min(a, b) == IF a < b THEN a ELSE b

Max(a, b) == IF a < b THEN b ELSE a

\* `needle in hay` for strings, at the granularity of pieces.
Contains(hay, needle) ==
    \E i \in 0..(Len(hay) - Len(needle)) :
        SubSeq(hay, i + 1, i + Len(needle)) = needle

----------------------------------------------------------------------------
(* Configuration (lines 30-34) *)

MODEL_NAME == "TinyLlama/TinyLlama-1.1B-Chat-v1.0"

ADAPTER_PATH == "./lora-ml-assistant/run1_baseline/final"

METRICS_PATH == "metrics.csv"

EXPERIMENTS_PATH == "experiments.csv"

PERPLEXITY_PATH == "perplexity.json"

Paths == {METRICS_PATH, PERPLEXITY_PATH, EXPERIMENTS_PATH}

----------------------------------------------------------------------------
(* The session globals (lines 36-37).  None is a record of its own shape. *)

None == [is_none |-> TRUE]

IsNone(h) == h.is_none

\* Python truthiness of the handle: None is falsy, a module object truthy.
Truthy(h) == ~h.is_none

----------------------------------------------------------------------------
(* Text, prompt template and tokenizer *)

\* Literal "</s>" in TEXT is two ordinary pieces; the tokenizer maps the
\* pair to the single end-of-sequence id when it encodes.
EOS_TEXT == <<"</", "s>">>

SYSTEM_TEXT == <<"sys">>

RoleMarkers == {<<"<|system|>">>, <<"<|user|>">>, <<"<|assistant|>">>, EOS_TEXT}

Whitespace == {" ", "\n"}

\* The f-string of chat (lines 79-86).
Prompt(message) ==
    <<"<|system|>", "\n">> \o SYSTEM_TEXT \o EOS_TEXT \o <<"\n">>
    \o <<"<|user|>", "\n">> \o message \o EOS_TEXT \o <<"\n">>
    \o <<"<|assistant|>", "\n">>

UNK_ID == 0

BOS_ID == 1

EOS_ID == 2

SpecialIds == {UNK_ID, BOS_ID, EOS_ID}

\* Ordinary vocabulary: id -> piece.  The role markers of the template are
\* ordinary text for the Llama vocabulary, not special tokens.
Vocab ==
    [i \in 3..11 |->
        <<"w", " ", "\n", "<|system|>", "<|user|>", "<|assistant|>",
          "</", "s>", "sys">>[i - 2]]

PieceId(p) ==
    IF \E i \in DOMAIN Vocab : Vocab[i] = p
    THEN CHOOSE i \in DOMAIN Vocab : Vocab[i] = p
    ELSE UNK_ID

RECURSIVE EncodePieces(_)
EncodePieces(text) ==
    IF text = <<>> THEN <<>>
    ELSE IF Len(text) >= 2 /\ SubSeq(text, 1, 2) = EOS_TEXT
         THEN <<EOS_ID>> \o EncodePieces(SubSeq(text, 3, Len(text)))
         ELSE <<PieceId(Head(text))>> \o EncodePieces(Tail(text))

\* tokenizer(prompt, return_tensors="pt")["input_ids"][0]: BOS is prepended.
Encode(text) == <<BOS_ID>> \o EncodePieces(text)

RECURSIVE Decode(_, _)
Decode(ids, skip_special_tokens) ==
    IF ids = <<>> THEN <<>>
    ELSE LET id == Head(ids)
             rest == Decode(Tail(ids), skip_special_tokens)
         IN  IF id \in SpecialIds
             THEN IF skip_special_tokens THEN rest
                  ELSE (CASE id = UNK_ID -> <<"<unk>">>
                          [] id = BOS_ID -> <<"<s>">>
                          [] id = EOS_ID -> EOS_TEXT) \o rest
             ELSE <<Vocab[id]>> \o rest

RECURSIVE LStrip(_)
LStrip(text) ==
    IF text # <<>> /\ Head(text) \in Whitespace THEN LStrip(Tail(text)) ELSE text

RECURSIVE RStrip(_)
RStrip(text) ==
    IF text # <<>> /\ text[Len(text)] \in Whitespace
    THEN RStrip(SubSeq(text, 1, Len(text) - 1))
    ELSE text

\* str.strip()
Strip(text) == RStrip(LStrip(text))

----------------------------------------------------------------------------
(* Startup: load_model (lines 50-74) *)

\* pad_token of the tokenizer as it comes from from_pretrained: not fixed by
\* this repository.
PadAsLoaded == {"none", "<unk>", "</s>"}

\* Candidate parameter lists: name (dotted pieces) and numel.
BaseParams ==
    { << [name |-> <<"model", "q_proj", "weight">>, numel |-> 1048576],
         [name |-> <<"model", "lora", "norm", "weight">>, numel |-> 2048] >> }

AdapterParams ==
    { << [name |-> <<"q_proj", "lora_", "A", "weight">>, numel |-> 999],
         [name |-> <<"q_proj", "lora_", "B", "weight">>, numel |-> 1001] >>,
      << [name |-> <<"lm_head", "modules_to_save", "weight">>, numel |-> 12345] >> }

Devices == IF cuda THEN {"cuda:0"} ELSE {"cpu"}

\* lines 51-62: tokenizer = AutoTokenizer.from_pretrained(MODEL_NAME)
load_tokenizer ==
    /\ pc = "init"
    /\ runs' = runs + 1
    /\ \/ \E p \in PadAsLoaded :
            /\ tokenizer' = [is_none |-> FALSE, eos_token |-> "</s>",
                             eos_token_id |-> EOS_ID, pad_token |-> p]
            /\ pc' = "l63"
       \/ /\ pc' = "failed"
          /\ UNCHANGED tokenizer
    /\ UNCHANGED <<model, base, cuda, files, last>>

\* load_model without line 63.
set_pad_token_skipped ==
    /\ pc = "l63"
    /\ pc' = "l65"
    /\ UNCHANGED <<model, tokenizer, base, runs, cuda, files, last>>

\* line 63: tokenizer.pad_token = tokenizer.eos_token
set_pad_token ==
    /\ pc = "l63"
    /\ tokenizer' = [tokenizer EXCEPT !.pad_token = tokenizer.eos_token]
    /\ pc' = "l65"
    /\ UNCHANGED <<model, base, runs, cuda, files, last>>

\* lines 65-70: base = AutoModelForCausalLM.from_pretrained(...)  (a local)
load_base ==
    /\ pc = "l65"
    /\ \/ \E ps \in BaseParams, d \in Devices :
            /\ base' = [is_none |-> FALSE, params |-> ps, device |-> d]
            /\ pc' = "l73"
       \/ /\ pc' = "failed"
          /\ UNCHANGED base
    /\ UNCHANGED <<model, tokenizer, runs, cuda, files, last>>

\* lines 72-74: model = PeftModel.from_pretrained(base, ADAPTER_PATH)
load_adapter ==
    /\ pc = "l73"
    /\ \/ \E ps \in AdapterParams :
            /\ model' = [is_none |-> FALSE, params |-> base.params \o ps,
                         device |-> base.device, adapter |-> ADAPTER_PATH]
            /\ pc' = "done"
       \/ /\ pc' = "failed"
          /\ UNCHANGED model
    /\ UNCHANGED <<tokenizer, base, runs, cuda, files, last>>

----------------------------------------------------------------------------
(* POST /chat (lines 40-43, 77-102) *)

TOP_P == 9

REPETITION_PENALTY == 12

\* ChatRequest bodies that pass pydantic's type validation: no range checks.
Requests ==
    { [message |-> <<"w">>, max_tokens |-> 50, temperature |-> 0],
      [message |-> <<"<|user|>", "w">>, max_tokens |-> 2, temperature |-> 7],
      [message |-> <<"w", "</", "s>">>, max_tokens |-> 1, temperature |-> 15],
      [message |-> <<>>, max_tokens |-> 0, temperature |-> 7] }

\* Keyword arguments of model.generate (lines 89-97), besides **inputs.
GenerateKwargsClamped(req, tok) ==
    [max_new_tokens |-> req.max_tokens,
     temperature |-> Max(req.temperature, 1),
     top_p |-> TOP_P,
     do_sample |-> TRUE,
     repetition_penalty |-> REPETITION_PENALTY,
     pad_token_id |-> tok.eos_token_id]

GenerateKwargs(req, tok) ==
    [max_new_tokens |-> req.max_tokens,
     temperature |-> req.temperature,
     top_p |-> TOP_P,
     do_sample |-> TRUE,
     repetition_penalty |-> REPETITION_PENALTY,
     pad_token_id |-> tok.eos_token_id]

\* Ids the backend may emit: end of sequence, a word, a space, the pieces
\* spelling "<|user|>" and "</s>".
GenVocab == {EOS_ID, 3, 4, 7, 9, 10}

\* What model.generate may append to the prompt: at most max_new_tokens ids,
\* ending at the first end-of-sequence id.
Continuations(max_new_tokens) ==
    { c \in SeqsUpTo(GenVocab, Min(MaxNew, Max(max_new_tokens, 0))) :
        \A i \in 1..(Len(c) - 1) : c[i] # EOS_ID }

\* outputs[0][inputs["input_ids"].shape[1]:]  (line 99)
ContinuationOfNoSlice(outputs, input_ids) == outputs

ContinuationOf(outputs, input_ids) ==
    SubSeq(outputs, Len(input_ids) + 1, Len(outputs))

\* Decoding that keeps the special tokens.
ResponseTextKeepSpecial(outputs, input_ids) ==
    Strip(Decode(ContinuationOf(outputs, input_ids), FALSE))

\* lines 98-101
ResponseText(outputs, input_ids) ==
    Strip(Decode(ContinuationOf(outputs, input_ids), TRUE))

ChatRaised(req, err, calls) ==
    [ep |-> "chat", req |-> req, status |-> 500, err |-> err, calls |-> calls,
     input_ids |-> <<>>, generated |-> <<>>, outputs |-> <<>>, response |-> <<>>]

\* Outcomes of one call of chat(req) with the globals m (model), tok (tokenizer).
\* tokenizer(...) on None raises TypeError; model.device on None raises
\* AttributeError; generate may raise; otherwise it returns prompt + continuation.
ChatOutcomesLenient(req, m, tok) ==
    LET input_ids == Encode(Prompt(req.message))
        call == [input_ids |-> input_ids, kwargs |-> GenerateKwargs(req, [eos_token_id |-> EOS_ID])]
    IN  {ChatRaised(req, "RuntimeError", <<call>>)}
        \cup { [ep |-> "chat", req |-> req, status |-> 200, err |-> "",
                calls |-> <<call>>, input_ids |-> input_ids, generated |-> new,
                outputs |-> input_ids \o new,
                response |-> ResponseText(input_ids \o new, input_ids)] :
               new \in Continuations(req.max_tokens) }

ChatOutcomes(req, m, tok) ==
    IF IsNone(tok) THEN {ChatRaised(req, "TypeError", <<>>)}
    ELSE IF IsNone(m) THEN {ChatRaised(req, "AttributeError", <<>>)}
    ELSE
    LET input_ids == Encode(Prompt(req.message))
        call == [input_ids |-> input_ids, kwargs |-> GenerateKwargs(req, tok)]
    IN  {ChatRaised(req, "RuntimeError", <<call>>)}
        \cup { [ep |-> "chat", req |-> req, status |-> 200, err |-> "",
                calls |-> <<call>>, input_ids |-> input_ids, generated |-> new,
                outputs |-> input_ids \o new,
                response |-> ResponseText(input_ids \o new, input_ids)] :
               new \in Continuations(req.max_tokens) }

\* A handler that re-configures the shared tokenizer on every request.
chat_repadding(req) ==
    /\ last' \in { [at |-> [model |-> model, tokenizer |-> tokenizer]] @@ o :
                     o \in ChatOutcomes(req, model, tokenizer) }
    /\ tokenizer' = IF IsNone(tokenizer) THEN tokenizer
                    ELSE [tokenizer EXCEPT !.pad_token = "<unk>"]
    /\ UNCHANGED <<model, base, pc, runs, cuda, files>>

chat(req) ==
    /\ last' \in { [at |-> [model |-> model, tokenizer |-> tokenizer]] @@ o :
                     o \in ChatOutcomes(req, model, tokenizer) }
    /\ UNCHANGED <<model, tokenizer, base, pc, runs, cuda, files>>

----------------------------------------------------------------------------
(* GET /health (lines 105-112) *)

GPU_NAME == "NVIDIA T4"

\* Evaluates model.parameters() whether or not the model is set.
HealthResultUnguarded(m, cuda_available) ==
    IF IsNone(m)
    THEN [status |-> 500, body |-> [error |-> "AttributeError"]]
    ELSE [status |-> 200,
          body |-> [status |-> "ok", model_loaded |-> TRUE, device |-> m.device,
                    gpu |-> IF cuda_available THEN GPU_NAME ELSE "cpu"]]

\* next(model.parameters()).device: every parameter is placed on m.device.
HealthResult(m, cuda_available) ==
    [status |-> 200,
     body |-> [status |-> "ok",
               model_loaded |-> ~IsNone(m),
               device |-> IF Truthy(m) THEN m.device ELSE "n/a",
               gpu |-> IF cuda_available THEN GPU_NAME ELSE "cpu"]]

health ==
    /\ last' = [ep |-> "health", at |-> model, cuda |-> cuda]
               @@ HealthResult(model, cuda)
    /\ UNCHANGED <<model, tokenizer, base, pc, runs, cuda, files>>

----------------------------------------------------------------------------
(* GET /metrics (lines 115-133) *)

\* A file on disk: os.path.exists and, for a file that exists, its text.
\* CSV text is a sequence of lines, each a sequence of cells; JSON text is
\* a sequence of lexical tokens.
AbsentFile == [exists |-> FALSE, content |-> <<>>]

MetricsFiles ==
    { AbsentFile,
      [exists |-> TRUE, content |-> << <<"run", "loss">>, <<"r1", "0.5">> >>],
      [exists |-> TRUE, content |-> << <<"run", "loss">>, <<"r1">>, <<"r2", "0.4">> >>],
      [exists |-> TRUE, content |-> << <<"run", "loss">>, <<"r1", "0.5">>, <<"r2", "0.4", "x">> >>] }

ExperimentsFiles ==
    { AbsentFile,
      [exists |-> TRUE, content |-> << <<"rank", "ppl">>, <<"8", "12.3">>, <<"16", "11.9">> >>],
      [exists |-> TRUE, content |-> << >>] }

PerplexityFiles ==
    { AbsentFile,
      [exists |-> TRUE, content |-> <<"{", "ppl", ":", "12.3", "}">>],
      [exists |-> TRUE, content |-> <<"{", "ppl", ":">>] }

FileStates(p) ==
    IF p = PERPLEXITY_PATH THEN PerplexityFiles
    ELSE IF p = METRICS_PATH THEN MetricsFiles ELSE ExperimentsFiles

Raised(e) == [ok |-> FALSE, err |-> e, value |-> <<>>]

Returned(v) == [ok |-> TRUE, err |-> "", value |-> v]

\* pd.read_csv(path).to_dict(orient="records"): the first line is the header;
\* a later line with more cells than the header is a ParserError, a shorter
\* one is filled with NaN; a file without a header line is an EmptyDataError.
ReadCsvRecords(lines) ==
    IF lines = <<>> THEN Raised("EmptyDataError")
    ELSE LET header == Head(lines)
             rows == Tail(lines)
         IN  IF \E i \in 1..Len(rows) : Len(rows[i]) > Len(header)
             THEN Raised("ParserError")
             ELSE Returned(
                    [i \in 1..Len(rows) |->
                        [h \in Range(header) |->
                            LET j == CHOOSE k \in 1..Len(header) : header[k] = h
                            IN  IF j <= Len(rows[i]) THEN rows[i][j] ELSE "NaN"]])

\* Members "key : value" of a flat JSON object, separated by ",".
RECURSIVE JsonMembers(_)
JsonMembers(toks) ==
    IF Len(toks) < 3 \/ toks[2] # ":" \/ toks[1] \in {"{", "}", ":", ","}
       \/ toks[3] \in {"{", "}", ":", ","}
    THEN Raised("JSONDecodeError")
    ELSE IF Len(toks) = 3 THEN Returned(<< <<toks[1], toks[3]>> >>)
    ELSE IF toks[4] # "," THEN Raised("JSONDecodeError")
    ELSE LET rest == JsonMembers(SubSeq(toks, 5, Len(toks)))
         IN  IF rest.ok THEN Returned(<< <<toks[1], toks[3]>> >> \o rest.value)
             ELSE rest

\* json.load(f): a flat object; a later duplicate key wins.
JsonLoad(toks) ==
    IF Len(toks) < 2 \/ toks[1] # "{" \/ toks[Len(toks)] # "}"
    THEN Raised("JSONDecodeError")
    ELSE IF Len(toks) = 2 THEN Returned(<<>>)
    ELSE LET ms == JsonMembers(SubSeq(toks, 2, Len(toks) - 1))
         IN  IF ~ms.ok THEN ms
             ELSE Returned(
                    [k \in {ms.value[i][1] : i \in 1..Len(ms.value)} |->
                        LET i == CHOOSE i \in 1..Len(ms.value) :
                                   /\ ms.value[i][1] = k
                                   /\ \A j \in (i + 1)..Len(ms.value) : ms.value[j][1] # k
                        IN  ms.value[i][2]])

LoadFile(p, content) ==
    IF p = PERPLEXITY_PATH THEN JsonLoad(content) ELSE ReadCsvRecords(content)

\* One `if os.path.exists(path): result[key] = load(path)` block, applied to
\* the outcome so far: an exception raised earlier has already left the handler.
MetricsBlock(acc, fs, p, key) ==
    IF ~acc.ok THEN acc
    ELSE IF ~fs[p].exists THEN acc
    ELSE LET r == LoadFile(p, fs[p].content)
         IN  IF r.ok
             THEN Returned([k \in DOMAIN acc.value \cup {key} |->
                              IF k = key THEN r.value ELSE acc.value[k]])
             ELSE r

\* A variant that swallows a failed load and keeps the other keys.
GetMetricsReturnIsolated(fs) ==
    LET keyOf == [p \in Paths |->
                    IF p = METRICS_PATH THEN "comparison"
                    ELSE IF p = PERPLEXITY_PATH THEN "perplexity" ELSE "experiments"]
        good == {p \in Paths : fs[p].exists /\ LoadFile(p, fs[p].content).ok}
    IN  Returned([k \in {keyOf[p] : p \in good} |->
                     LET p == CHOOSE q \in good : keyOf[q] = k
                     IN  LoadFile(p, fs[p].content).value])

\* A variant that files the experiments rows under the comparison key.
GetMetricsReturnSameKey(fs) ==
    MetricsBlock(
      MetricsBlock(
        MetricsBlock(Returned(<<>>), fs, METRICS_PATH, "comparison"),
        fs, PERPLEXITY_PATH, "perplexity"),
      fs, EXPERIMENTS_PATH, "comparison")

\* Lines 117-133: result = {} ; three blocks in source order ; return result
GetMetricsReturn(fs) ==
    MetricsBlock(
      MetricsBlock(
        MetricsBlock(Returned(<<>>), fs, METRICS_PATH, "comparison"),
        fs, PERPLEXITY_PATH, "perplexity"),
      fs, EXPERIMENTS_PATH, "experiments")

HasNaN(result) ==
    \E k \in DOMAIN result \cap {"comparison", "experiments"} :
        \E i \in DOMAIN result[k] :
            \E h \in DOMAIN result[k][i] : result[k][i][h] = "NaN"

\* The route (line 115) turns the handler's outcome into the HTTP response:
\* an exception is a 500; the returned dict is rendered as JSON, which
\* rejects a NaN float (ValueError), again a 500.
JsonResponse(r) ==
    IF ~r.ok THEN [status |-> 500, err |-> r.err, body |-> <<>>]
    ELSE IF HasNaN(r.value) THEN [status |-> 500, err |-> "ValueError", body |-> <<>>]
    ELSE [status |-> 200, err |-> "", body |-> r.value]

MetricsResult(fs) == JsonResponse(GetMetricsReturn(fs))

get_metrics ==
    /\ last' = [ep |-> "metrics", at |-> files] @@ MetricsResult(files)
    /\ UNCHANGED <<model, tokenizer, base, pc, runs, cuda, files>>

\* The training pipeline (outside this repository) writes or removes a file.
write_file(p, f) ==
    /\ files[p] # f
    /\ files' = [files EXCEPT ![p] = f]
    /\ UNCHANGED <<model, tokenizer, base, pc, runs, cuda, last>>

----------------------------------------------------------------------------
(* GET /model-info (lines 136-152) *)

DigitChars == <<"0", "1", "2", "3", "4", "5", "6", "7", "8", "9">>

RECURSIVE Digits(_)
Digits(n) ==
    IF n < 10 THEN <<DigitChars[n + 1]>>
    ELSE Digits(n \div 10) \o <<DigitChars[(n % 10) + 1]>>

Group3(n) ==
    <<DigitChars[(n \div 100) + 1], DigitChars[((n \div 10) % 10) + 1],
      DigitChars[(n % 10) + 1]>>

\* f"{n:,}" for a non-negative int.
RECURSIVE FormatThousands(_)
FormatThousands(n) ==
    IF n < 1000 THEN Digits(n)
    ELSE FormatThousands(n \div 1000) \o <<",">> \o Group3(n % 1000)

\* "lora_" in name or "modules_to_save" in name
IsAdapterNameLoose(name) ==
    \/ Contains(name, <<"lora">>) \/ Contains(name, <<"lora_">>)
    \/ Contains(name, <<"modules_to_save">>)

IsAdapterName(name) ==
    Contains(name, <<"lora_">>) \/ Contains(name, <<"modules_to_save">>)

\* The loop of lines 140-143 over the first k named parameters:
\* <<total, adapter>> after k iterations.
RECURSIVE CountParams(_, _)
CountParams(params, k) ==
    IF k = 0 THEN <<0, 0>>
    ELSE LET prev == CountParams(params, k - 1)
             p == params[k]
         IN  <<prev[1] + p.numel,
               IF IsAdapterName(p.name) THEN prev[2] + p.numel ELSE prev[2]>>

ModelInfoResult(m, cuda_available) ==
    LET counts == IF Truthy(m) THEN CountParams(m.params, Len(m.params))
                  ELSE <<0, 0>>
    IN  [status |-> 200,
         body |-> [base_model |-> MODEL_NAME,
                   adapter_path |-> ADAPTER_PATH,
                   quantization |-> "4-bit nf4 (qlora)",
                   total_params |-> FormatThousands(counts[1]),
                   trainable_params |-> FormatThousands(counts[2]),
                   vram_used |-> IF cuda_available THEN "gb" ELSE "n/a"]]

model_info ==
    /\ last' = [ep |-> "model_info", at |-> model] @@ ModelInfoResult(model, cuda)
    /\ UNCHANGED <<model, tokenizer, base, pc, runs, cuda, files>>

----------------------------------------------------------------------------

Init ==
    /\ model = None
    /\ tokenizer = None
    /\ base = None
    /\ pc = "init"
    /\ runs = 0
    /\ cuda \in BOOLEAN
    /\ files = [p \in Paths |-> AbsentFile]
    /\ last = [ep |-> "none"]

Next ==
    \/ load_tokenizer
    \/ set_pad_token
    \/ load_base
    \/ load_adapter
    \/ \E req \in Requests : chat(req)
    \/ health
    \/ get_metrics
    \/ model_info
    \/ \E p \in Paths : \E f \in FileStates(p) : write_file(p, f)

Spec == Init /\ [][Next]_vars

----------------------------------------------------------------------------
(* Properties *)

KeyOf(p) ==
    IF p = METRICS_PATH THEN "comparison"
    ELSE IF p = PERPLEXITY_PATH THEN "perplexity" ELSE "experiments"

Malformed(fs) == {p \in Paths : fs[p].exists /\ ~LoadFile(p, fs[p].content).ok}

\* CSV files that parse but have a line with fewer cells than the header.
MissingCells(fs) ==
    {p \in {METRICS_PATH, EXPERIMENTS_PATH} :
        /\ fs[p].exists
        /\ fs[p].content # <<>>
        /\ \E i \in 2..Len(fs[p].content) : Len(fs[p].content[i]) < Len(fs[p].content[1])}

\* C1: for every combination of existence of the three files at request
\* time, a GET /metrics whose files load (and hold no missing cell, which
\* cannot be rendered as JSON) returns the object whose keys
\* are exactly those of the files that exist, each mapped to the loaded
\* content of its file: {} when none exists, {"perplexity": {"ppl": 12.3}}
\* when only the perplexity file {"ppl": 12.3} exists.
MetricsKeysIffFilesExist ==
    last.ep = "metrics" =>
        LET fs == last.at
            body == last.body
        IN  /\ (Malformed(fs) = {} /\ MissingCells(fs) = {}) => last.status = 200
            /\ last.status = 200 =>
                /\ DOMAIN body \subseteq {"comparison", "perplexity", "experiments"}
                /\ ("comparison" \in DOMAIN body) <=> fs[METRICS_PATH].exists
                /\ ("perplexity" \in DOMAIN body) <=> fs[PERPLEXITY_PATH].exists
                /\ ("experiments" \in DOMAIN body) <=> fs[EXPERIMENTS_PATH].exists
                /\ \A p \in Paths :
                      fs[p].exists => body[KeyOf(p)] = LoadFile(p, fs[p].content).value
                /\ (\A p \in Paths : ~fs[p].exists) => body = <<>>
                /\ fs[PERPLEXITY_PATH].content = <<"{", "ppl", ":", "12.3", "}">>
                      => body["perplexity"] = [ppl |-> "12.3"]
                /\ fs[METRICS_PATH].content = << <<"run", "loss">>, <<"r1", "0.5">> >>
                      => body["comparison"] = << [run |-> "r1", loss |-> "0.5"] >>
                /\ fs[EXPERIMENTS_PATH].content
                      = << <<"rank", "ppl">>, <<"8", "12.3">>, <<"16", "11.9">> >>
                      => body["experiments"] = << [rank |-> "8", ppl |-> "12.3"],
                                                  [rank |-> "16", ppl |-> "11.9"] >>

\* C1 witness: only the perplexity file exists and the response is exactly
\* {"perplexity": {"ppl": "12.3"}}.
MetricsOnlyPerplexityServed ==
    /\ last.ep = "metrics"
    /\ last.status = 200
    /\ {p \in Paths : last.at[p].exists} = {PERPLEXITY_PATH}
    /\ last.body = [perplexity |-> [ppl |-> "12.3"]]

\* C2: the model and tokenizer globals are written only by steps of the
\* startup load, and once startup has finished no request changes them.
SessionWrittenOnlyByStartup ==
    /\ [][(model' # model \/ tokenizer' # tokenizer)
            => (pc \in {"init", "l63", "l73"} /\ pc' # pc)]_vars
    /\ [][pc = "done" => (model' = model /\ tokenizer' = tokenizer /\ pc' = "done")]_vars

\* C2 witness: a chat request was served after startup finished.
RequestServedAfterStartup ==
    /\ pc = "done"
    /\ ~IsNone(model)
    /\ last.ep = "chat"
    /\ last.status = 200

\* C3: a /chat request is served only after the startup sequence ran once
\* and through all its steps in order (tokenizer, pad marker := eos marker,
\* base model, adapter merged on the base); a failed step ends startup and
\* leaves no model, and chat is not served with a partial session.
StartupBeforeServing ==
    /\ [](runs <= 1)
    /\ []((last.ep = "chat" /\ last.status = 200) =>
            /\ pc = "done"
            /\ runs = 1
            /\ ~IsNone(tokenizer) /\ tokenizer.pad_token = tokenizer.eos_token
            /\ ~IsNone(base)
            /\ ~IsNone(model))
    /\ [](pc = "failed" => IsNone(model))
    /\ [][/\ base' # base =>
                (~IsNone(tokenizer) /\ tokenizer.pad_token = tokenizer.eos_token)
          /\ model' # model =>
                /\ ~IsNone(base)
                /\ SubSeq(model'.params, 1, Len(base.params)) = base.params
                /\ model'.adapter = ADAPTER_PATH
          /\ pc = "failed" => pc' = "failed"]_vars

\* C3 witness: chat served, startup complete.
ChatServedWithFullSession ==
    /\ last.ep = "chat"
    /\ last.status = 200
    /\ pc = "done"
    /\ runs = 1

\* C4: GET /health always answers 200 with status "ok"; model_loaded is true
\* exactly when the model global is set; before initialization the device is
\* "n/a", and gpu is "cpu" when no accelerator is available.
HealthNeverFails ==
    last.ep = "health" =>
        /\ last.status = 200
        /\ last.body.status = "ok"
        /\ last.body.model_loaded = ~IsNone(last.at)
        /\ IsNone(last.at) => (last.body.device = "n/a" /\ ~last.body.model_loaded)
        /\ ~last.cuda => last.body.gpu = "cpu"

\* C4 witness: health answered before the session was initialized, no accelerator.
HealthBeforeInit ==
    /\ last.ep = "health"
    /\ IsNone(last.at)
    /\ ~last.cuda
    /\ last.body = [status |-> "ok", model_loaded |-> FALSE, device |-> "n/a", gpu |-> "cpu"]

\* C5: a /chat request handled with the session in place calls generate
\* exactly once, with max_new_tokens and temperature equal to the request's
\* values, sampling on, top_p 0.9, repetition_penalty 1.2 and the
\* tokenizer's eos id as pad id.
GenerateCalledWithRequestParams ==
    last.ep = "chat" =>
        /\ Len(last.calls) <= 1
        /\ (~IsNone(last.at.model) /\ ~IsNone(last.at.tokenizer)) =>
            /\ Len(last.calls) = 1
            /\ last.calls[1].kwargs =
                 [max_new_tokens |-> last.req.max_tokens,
                  temperature |-> last.req.temperature,
                  top_p |-> 9,
                  do_sample |-> TRUE,
                  repetition_penalty |-> 12,
                  pad_token_id |-> last.at.tokenizer.eos_token_id]

\* C5 witness: the request {max_tokens 50, temperature 0.0} reached generate.
ZeroTemperaturePassedThrough ==
    /\ last.ep = "chat"
    /\ ~IsNone(last.at.model)
    /\ last.req.max_tokens = 50
    /\ last.req.temperature = 0
    /\ Len(last.calls) = 1
    /\ last.calls[1].kwargs.temperature = 0

\* C6: the text returned by /chat is decoded from the generated continuation
\* only: the echoed prompt (as many ids as the tokenized prompt has) is cut
\* off the output before decoding.
ResponseDecodedFromContinuation ==
    (last.ep = "chat" /\ last.status = 200) =>
        LET n == Len(last.input_ids)
        IN  /\ last.input_ids = Encode(Prompt(last.req.message))
            /\ SubSeq(last.outputs, 1, n) = last.input_ids
            /\ Len(last.outputs) - n = Len(last.generated)
            /\ last.response = Strip(Decode(last.generated, TRUE))
            /\ last.generated = <<>> => last.response = <<>>

\* C6 witness: a served chat whose continuation decodes to a non-empty text.
ContinuationReturned ==
    /\ last.ep = "chat"
    /\ last.status = 200
    /\ last.generated = <<3, EOS_ID>>
    /\ last.response = <<"w">>

\* C7: the text returned by /chat contains none of the template's role
\* markers ("<|system|>", "<|user|>", "<|assistant|>", "</s>") and has no
\* leading or trailing whitespace.
ResponseFreeOfRoleMarkers ==
    (last.ep = "chat" /\ last.status = 200) =>
        /\ \A m \in RoleMarkers : ~Contains(last.response, m)
        /\ last.response # <<>> =>
              /\ Head(last.response) \notin Whitespace
              /\ last.response[Len(last.response)] \notin Whitespace

\* The ordinary ids that spell a text piece by piece.
SpelledBy(text) == [i \in 1..Len(text) |-> PieceId(text[i])]

\* C7 (amended): the text returned by /chat has no leading or trailing
\* whitespace and nothing decoded from a special token id; a role marker
\* occurs in it only where the model generated the marker's text as
\* ordinary tokens.
ResponseStrippedAndSpecialsSkipped ==
    (last.ep = "chat" /\ last.status = 200) =>
        /\ last.response # <<>> =>
              /\ Head(last.response) \notin Whitespace
              /\ last.response[Len(last.response)] \notin Whitespace
        /\ Len(last.response)
              <= Cardinality({i \in DOMAIN last.generated :
                                 last.generated[i] \notin SpecialIds})
        /\ \A m \in RoleMarkers :
              Contains(last.response, m) => Contains(last.generated, SpelledBy(m))

\* C7 witness: the model generated "<|user|>" as an ordinary token and then
\* the end-of-sequence id; the response is the marker text.
RoleMarkerInResponse ==
    /\ last.ep = "chat"
    /\ last.status = 200
    /\ last.generated = <<7, EOS_ID>>
    /\ last.response = <<"<|user|>">>

DigitValue(c) == CHOOSE d \in 0..9 : DigitChars[d + 1] = c

RECURSIVE ParseDigits(_)
ParseDigits(cs) ==
    IF cs = <<>> THEN 0
    ELSE 10 * ParseDigits(SubSeq(cs, 1, Len(cs) - 1)) + DigitValue(cs[Len(cs)])

\* A decimal numeral with "," exactly before every group of three digits.
ThousandsSeparated(cs) ==
    /\ cs # <<>>
    /\ cs[1] # ","
    /\ Len(cs) > 1 => cs[1] # "0"
    /\ \A i \in 1..Len(cs) : (cs[i] = ",") <=> ((Len(cs) - i) % 4 = 3)

ValueOf(cs) == ParseDigits(SelectSeq(cs, LAMBDA c : c # ","))

RECURSIVE SumNumel(_, _)
SumNumel(params, I) ==
    IF I = {} THEN 0
    ELSE LET i == CHOOSE i \in I : TRUE
         IN  params[i].numel + SumNumel(params, I \ {i})

\* C8: GET /model-info reports total_params as the sum of numel over all
\* named parameters and trainable_params as the sum over those whose name
\* contains "lora_" or "modules_to_save", both with thousands separators;
\* before initialization both are "0" and the request does not fail.
ModelInfoCounts ==
    last.ep = "model_info" =>
        LET m == last.at
            all == IF IsNone(m) THEN {} ELSE DOMAIN m.params
            tagged == {i \in all :
                         \E j \in DOMAIN m.params[i].name :
                            m.params[i].name[j] \in {"lora_", "modules_to_save"}}
            ps == IF IsNone(m) THEN <<>> ELSE m.params
        IN  /\ last.status = 200
            /\ ThousandsSeparated(last.body.total_params)
            /\ ThousandsSeparated(last.body.trainable_params)
            /\ ValueOf(last.body.total_params) = SumNumel(ps, all)
            /\ ValueOf(last.body.trainable_params) = SumNumel(ps, tagged)
            /\ ValueOf(last.body.trainable_params) <= ValueOf(last.body.total_params)
            /\ IsNone(m) => /\ last.body.total_params = <<"0">>
                            /\ last.body.trainable_params = <<"0">>

\* C8 witness: a model with a base parameter named "...lora.norm..." (no
\* "lora_") and two lora_ parameters: 1,052,624 in total, 2,000 trainable.
ModelInfoOfLoadedModel ==
    /\ last.ep = "model_info"
    /\ ~IsNone(last.at)
    /\ last.body.total_params = <<"1", ",", "0", "5", "2", ",", "6", "2", "4">>
    /\ last.body.trainable_params = <<"2", ",", "0", "0", "0">>

\* C9: in GET /metrics a file that exists and is malformed fails the whole
\* request (no partial result with the keys of the well-formed files); a
\* file that is absent is skipped and causes no error: every failure is due
\* to a file that exists.
MalformedFileFailsWholeRequest ==
    last.ep = "metrics" =>
        /\ Malformed(last.at) # {} => (last.status = 500 /\ last.body = <<>>)
        /\ last.status = 500 => (Malformed(last.at) \cup MissingCells(last.at)) # {}
        /\ (\A p \in Paths : ~last.at[p].exists) => last.status = 200
        /\ last.status \in {200, 500}

\* C9 witness: one file is malformed, another is well-formed, a third is
\* absent, and the request failed.
MetricsFailedBesideGoodFile ==
    /\ last.ep = "metrics"
    /\ last.status = 500
    /\ \E p, q, r \in Paths :
          /\ p \in Malformed(last.at)
          /\ last.at[q].exists /\ q \notin Malformed(last.at)
          /\ ~last.at[r].exists

\* C10: in every state, startup's intermediate and failed states included,
\* a set model global implies a set tokenizer global whose pad marker is its
\* eos marker; a failed startup leaves the model unset.
ModelImpliesTokenizerReady ==
    /\ ~IsNone(model) =>
          (~IsNone(tokenizer) /\ tokenizer.pad_token = tokenizer.eos_token)
    /\ pc = "failed" => IsNone(model)
    /\ pc \in {"init", "l63", "l65", "l73"} => IsNone(model)

\* C10 witness: the model global is set.
ModelPopulated ==
    /\ ~IsNone(model)
    /\ ~IsNone(tokenizer)
    /\ tokenizer.pad_token = "</s>"

\* The converse of C10 fails in this state: tokenizer set, model unset,
\* startup failed.
TokenizerWithoutModel ==
    /\ pc = "failed"
    /\ ~IsNone(tokenizer)
    /\ IsNone(model)

====
